---- MODULE Spec2Model ----
(***************************************************************************)
(* A model of main-resnet.py: the 3D ResNet builder (generate_model,       *)
(* ResNet.__init__, ResNet._make_layer), the dataset adapter (CNNDataset), *)
(* the evaluation routine (evaluate), the training loop (train_net), the   *)
(* spreadsheet / image preparation (process_excel, load_image_data and the *)
(* __main__ data preparation) and the __main__ trial loop.                 *)
(*                                                                         *)
(* Each part of the script has its own group of variables and its own      *)
(* specification; a specification leaves the other groups idle.            *)
(***************************************************************************)
EXTENDS Integers, Sequences, FiniteSets, TLC

VARIABLES
    \* ---- generate_model / ResNet.__init__ -------------------------------
    m_pc,        \* "idle" | "call" | "returned" | "raised"
    m_depth,     \* the model_depth argument
    m_kwargs,    \* [inplanes, widen_factor, shortcut_type, n_classes]
    m_built,     \* number of ResNet objects constructed so far
    m_ret        \* what generate_model gave back

mvars == <<m_pc, m_depth, m_kwargs, m_built, m_ret>>

VARIABLES
    \* ---- evaluate ------------------------------------------------------
    e_pc,          \* "idle" | "call" | "loop" | "returned" | "raised"
    e_loader,      \* the loader argument: the batches it yields, in order
    e_next,        \* number of batches the for loop has taken
    e_training,    \* net.training
    e_total_err,   \* total_err
    e_total_loss,  \* total_loss
    e_total_epoch, \* total_epoch
    e_i,           \* the name i (the inner loop's variable), -1 while unbound
    e_true,        \* true
    e_estimated,   \* estimated
    e_ret          \* what evaluate gave back

evars == <<e_pc, e_loader, e_next, e_training, e_total_err, e_total_loss,
           e_total_epoch, e_i, e_true, e_estimated, e_ret>>

VARIABLES
    \* ---- CNNDataset -----------------------------------------------------
    s_data,        \* self.data: patient id -> entry
    s_patient_ids, \* self.patient_ids
    s_call,        \* the last call made on the dataset
    s_ret          \* what that call gave back

svars == <<s_data, s_patient_ids, s_call, s_ret>>

VARIABLES
    \* ---- process_excel, load_image_data, __main__ data preparation ------
    d_pc,            \* "idle" | "excel" | "listdir" | "load" | "loaded" | "raised"
    d_df,            \* df_sickkids: the rows of the sheet
    d_exclusions,    \* excluded_patients
    d_listing,       \* the entries of image_directory
    d_limit,         \* limit (0 for False)
    d_features,      \* sickkids_radiomics_features
    d_labels,        \* sickkids_labels
    d_patients_list, \* patients_list
    d_images,        \* images
    d_patients_used, \* patients_used
    d_exc            \* the exception that ended the script, "" if none

dvars == <<d_pc, d_df, d_exclusions, d_listing, d_limit, d_features, d_labels,
           d_patients_list, d_images, d_patients_used, d_exc>>

VARIABLES
    \* ---- train_net -------------------------------------------------------
    n_pc,              \* "idle" | "epoch" | "train" | "val" | "auc" | "returned" | "raised"
    n_data,            \* the data mapping of the dataset behind both loaders
    n_ids,             \* its patient id list
    n_train_idx,       \* train_dataloader: the dataset positions it serves
    n_val_idx,         \* validation_dataloader: the dataset positions it serves
    n_loader_batch,    \* batch_size of the two DataLoaders
    n_batch_size,      \* batch_size (the argument)
    n_num_epochs,      \* num_epochs
    n_epoch,           \* epoch, -1 before the loop
    n_pos,             \* examples the running for loop has taken from its loader
    n_training,        \* net.training
    n_opt_steps,       \* calls of optimizer.step() so far
    n_train_batches,   \* train_batches
    n_batches,         \* batches
    n_train_loss,      \* train_loss as <<num, den>>
    n_val_loss,        \* val_loss as <<num, den>>
    n_training_true,   \* training_true
    n_validation_true, \* validation_true
    n_val_history,     \* the val_loss of every finished epoch, in order
    n_ret              \* what train_net gave back

nvars == <<n_pc, n_data, n_ids, n_train_idx, n_val_idx, n_loader_batch,
           n_batch_size, n_num_epochs, n_epoch, n_pos, n_training, n_opt_steps,
           n_train_batches, n_batches, n_train_loss, n_val_loss,
           n_training_true, n_validation_true, n_val_history, n_ret>>

VARIABLES
    \* ---- the __main__ trial loop -----------------------------------------
    t_pc,           \* "idle" | "seed" | "split" | "loaders" | "model" | "call"
                    \* | "in_train" | "done" | "raised"
    t_t,            \* t
    t_seed,         \* seed, -1 while unbound
    t_applied,      \* the seeds the loop has handed to random_seed, in order
    t_drawn,        \* the integers the loop has drawn as next_seed, in order
    t_images,       \* images
    t_patients_used,\* patients_used
    t_sizes,        \* <<train_size, validation_size, test_size>>
    t_split,        \* <<train_dataset, validation_dataset, test_dataset>> as positions
    t_net,          \* net
    t_lowest,       \* <<lowest_val_loss, lowest_val_loss_epoch>>
    t_result,       \* the tuple unpacked at line 655
    t_exc           \* the exception that ended the script, "" if none

tvars == <<t_pc, t_t, t_seed, t_applied, t_drawn, t_images, t_patients_used,
           t_sizes, t_split, t_net, t_lowest, t_result, t_exc>>

vars == <<mvars, evars, svars, dvars, nvars, tvars>>

\* What each part of the script leaves alone.
notM == <<evars, svars, dvars, nvars, tvars>>
notE == <<mvars, svars, dvars, nvars, tvars>>
notS == <<mvars, evars, dvars, nvars, tvars>>
notD == <<mvars, evars, svars, nvars, tvars>>
notNT == <<mvars, evars, svars, dvars>>

-----------------------------------------------------------------------------
(* Bounds of the model.                                                    *)

MaxDepth == 205          \* depths 0..MaxDepth are requested
MaxWidth == 3            \* base widths 2..MaxWidth besides the script's own
MaxExamples == 3         \* examples behind a loader handed to evaluate
MaxLoss == 2             \* a batch's loss value is one of 1..MaxLoss
MaxDataId == 2           \* a CNNDataset is built over patient ids 1..MaxDataId
MaxListed == 2           \* and lists at most MaxListed of them
MaxCode == 2             \* the sheet and the image directory know patients 1..MaxCode
MaxServed == 2           \* a loader handed to train_net serves at most MaxServed examples
MaxEpochs == 2           \* train_net is called with num_epochs in 0..MaxEpochs
MaxPatients == 5         \* the trial loop runs over 0..MaxPatients patients
MaxSeed == 3             \* random.randint draws from 0..MaxSeed

-----------------------------------------------------------------------------
(* Small helpers.                                                          *)

Range(s) == {s[i] : i \in DOMAIN s}

RECURSIVE SumSeq(_)
SumSeq(s) == IF s = <<>> THEN 0 ELSE s[1] + SumSeq(Tail(s))

Min(a, b) == IF a <= b THEN a ELSE b

-----------------------------------------------------------------------------
(* The network builder: lines 136-352.                                     *)

\* BasicBlock.expansion = 1 (line 137), Bottleneck.expansion = 4 (line 171)
expansion(block) == IF block = "BasicBlock" THEN 1 ELSE 4

\* The downsample argument of a block: None, the type 'A' partial of
\* _downsample_basic_block, or the type 'B' conv1x1x1 + BatchNorm3d.
NoDownsample == [type |-> "None", in_planes |-> 0, out_planes |-> 0, stride |-> 0]

\* block(in_planes, planes, stride=1, downsample=None): lines 139-149, 173-185.
\* out_planes is the channel count of the block's main path (bn2 / bn3).
Block(block, in_planes, planes, stride, downsample) ==
    [name       |-> block,
     in_planes  |-> in_planes,
     planes     |-> planes,
     out_planes |-> planes * expansion(block),
     stride     |-> stride,
     downsample |-> downsample]

\* ResNet._make_layer, lines 284-306; in_planes is self.in_planes on entry, the
\* result carries the layer and self.in_planes on exit.
make_layer_off_by_one(in_planes, block, planes, blocks, shortcut_type, stride) ==
    LET out == planes * expansion(block)
        downsample ==
            IF stride # 1 \/ in_planes # out
            THEN IF shortcut_type = "A"
                 THEN [type |-> "A", in_planes |-> in_planes, out_planes |-> out,
                       stride |-> stride]
                 ELSE [type |-> "B", in_planes |-> in_planes, out_planes |-> out,
                       stride |-> stride]
            ELSE NoDownsample
        first == Block(block, in_planes, planes, stride, downsample)
        rest  == [i \in 1..blocks |-> Block(block, out, planes, 1, NoDownsample)]
    IN  [layer |-> <<first>> \o rest, in_planes |-> out]

\* _make_layer giving every block of the layer the stride and the downsample.
make_layer_stride_everywhere(in_planes, block, planes, blocks, shortcut_type, stride) ==
    LET out == planes * expansion(block)
        downsample ==
            IF stride # 1 \/ in_planes # out
            THEN IF shortcut_type = "A"
                 THEN [type |-> "A", in_planes |-> in_planes, out_planes |-> out,
                       stride |-> stride]
                 ELSE [type |-> "B", in_planes |-> in_planes, out_planes |-> out,
                       stride |-> stride]
            ELSE NoDownsample
        first == Block(block, in_planes, planes, stride, downsample)
        rest  == [i \in 1..(blocks - 1) |-> Block(block, out, planes, stride, downsample)]
    IN  [layer |-> <<first>> \o rest, in_planes |-> out]

make_layer(in_planes, block, planes, blocks, shortcut_type, stride) ==
    LET out == planes * expansion(block)
        downsample ==
            IF stride # 1 \/ in_planes # out
            THEN IF shortcut_type = "A"
                 THEN [type |-> "A", in_planes |-> in_planes, out_planes |-> out,
                       stride |-> stride]
                 ELSE [type |-> "B", in_planes |-> in_planes, out_planes |-> out,
                       stride |-> stride]
            ELSE NoDownsample
        first == Block(block, in_planes, planes, stride, downsample)
        \* for i in range(1, blocks): blocks - 1 further blocks (none if blocks <= 1)
        rest  == [i \in 1..(blocks - 1) |-> Block(block, out, planes, 1, NoDownsample)]
    IN  [layer |-> <<first>> \o rest, in_planes |-> out]

\* int(x * widen_factor), line 226, for a widen_factor num/den that a float
\* holds exactly (den a power of two): the product is exact and int() truncates.
WidenedWidth(x, widen_factor) == (x * widen_factor[1]) \div widen_factor[2]

\* ResNet.__init__, lines 212-262 (the layers; initialisation of the weights,
\* lines 264-271, changes no shape).
ResNet(block, layers, inplanes, model_depth, kwargs) ==
    LET block_inplanes == [i \in 1..4 |-> WidenedWidth(inplanes[i], kwargs.widen_factor)]
        st   == kwargs.shortcut_type
        l1   == make_layer(block_inplanes[1], block, block_inplanes[1], layers[1], st, 1)
        l2   == make_layer(l1.in_planes, block, block_inplanes[2], layers[2], st, 2)
        l3   == make_layer(l2.in_planes, block, block_inplanes[3], layers[3], st, 2)
        l4   == make_layer(l3.in_planes, block, block_inplanes[4], layers[4], st, 2)
    IN  [name           |-> "ResNet",
         model_depth    |-> model_depth,
         block          |-> block,
         conv1_out      |-> block_inplanes[1],
         stages         |-> <<l1.layer, l2.layer, l3.layer, l4.layer>>,
         in_planes      |-> l4.in_planes,
         fc_in          |-> block_inplanes[4] * expansion(block),
         fc_out         |-> kwargs.n_classes]

\* The value of a Python name bound to None, and of a raised exception.
NoNet == [name |-> "None"]

Returned(v) == [kind |-> "return", exc |-> "", value |-> v]
Raised(e)   == [kind |-> "raise", exc |-> e, value |-> NoNet]
NotCalled   == [kind |-> "none", exc |-> "", value |-> NoNet]

\* ResNet._downsample_basic_block, lines 273-282, by channel count: avg_pool3d
\* keeps the channels of x, torch.zeros makes planes - channels more (and
\* raises RuntimeError for a negative count), torch.cat joins the two.
downsample_basic_block(channels, planes) ==
    IF planes - channels < 0 THEN Raised("RuntimeError")
    ELSE Returned(channels + (planes - channels))

\* The channel count of `residual` in a block's forward (lines 152-162,
\* 188-202) for an input of the block's in_planes channels: x itself, or
\* self.downsample(x), type 'B' being conv1x1x1(in_planes, planes * expansion).
residual_channels(b) ==
    CASE b.downsample.type = "None" -> Returned(b.in_planes)
      [] b.downsample.type = "A" ->
             downsample_basic_block(b.in_planes, b.downsample.out_planes)
      [] b.downsample.type = "B" -> Returned(b.downsample.out_planes)

\* The depths of the assert at line 335.
SupportedDepths == {10, 18, 34, 50, 101, 152, 200}

\* generate_model with the assert of line 335 left out.
generate_model_no_assert(model_depth, inplanes, kwargs) ==
    CASE model_depth = 10  -> Returned(ResNet("BasicBlock", <<1, 1, 1, 1>>, inplanes, model_depth, kwargs))
      [] model_depth = 18  -> Returned(ResNet("BasicBlock", <<2, 2, 2, 2>>, inplanes, model_depth, kwargs))
      [] model_depth = 34  -> Returned(ResNet("BasicBlock", <<3, 4, 6, 3>>, inplanes, model_depth, kwargs))
      [] model_depth = 50  -> Returned(ResNet("Bottleneck", <<3, 4, 6, 3>>, inplanes, model_depth, kwargs))
      [] model_depth = 101 -> Returned(ResNet("Bottleneck", <<3, 4, 23, 3>>, inplanes, model_depth, kwargs))
      [] model_depth = 152 -> Returned(ResNet("Bottleneck", <<3, 8, 36, 3>>, inplanes, model_depth, kwargs))
      [] model_depth = 200 -> Returned(ResNet("Bottleneck", <<3, 24, 36, 3>>, inplanes, model_depth, kwargs))
      [] OTHER             -> Returned(NoNet)

\* generate_model, lines 334-352.
generate_model(model_depth, inplanes, kwargs) ==
    IF model_depth \notin SupportedDepths
    THEN Raised("AssertionError")
    ELSE CASE model_depth = 10  -> Returned(ResNet("BasicBlock", <<1, 1, 1, 1>>, inplanes, model_depth, kwargs))
           [] model_depth = 18  -> Returned(ResNet("BasicBlock", <<2, 2, 2, 2>>, inplanes, model_depth, kwargs))
           [] model_depth = 34  -> Returned(ResNet("BasicBlock", <<3, 4, 6, 3>>, inplanes, model_depth, kwargs))
           [] model_depth = 50  -> Returned(ResNet("Bottleneck", <<3, 4, 6, 3>>, inplanes, model_depth, kwargs))
           [] model_depth = 101 -> Returned(ResNet("Bottleneck", <<3, 4, 23, 3>>, inplanes, model_depth, kwargs))
           [] model_depth = 152 -> Returned(ResNet("Bottleneck", <<3, 8, 36, 3>>, inplanes, model_depth, kwargs))
           [] model_depth = 200 -> Returned(ResNet("Bottleneck", <<3, 24, 36, 3>>, inplanes, model_depth, kwargs))
           [] OTHER             -> Returned(NoNet)

\* inplanes of the script, line 558.
ScriptInplanes == <<64, 128, 256, 512>>

\* The keyword arguments a caller may pass: widen_factor as <<num, den>>,
\* 1.0 by default (line 222); shortcut_type 'B' by default (line 221).
InplanesChoices == {ScriptInplanes} \cup [1..4 -> 2..MaxWidth]

WidenFactors == {<<1, 1>>, <<2, 1>>, <<1, 2>>}

KwargsChoices(inplanes_choices) ==
    [inplanes : inplanes_choices, widen_factor : WidenFactors,
     shortcut_type : {"A", "B"}, n_classes : {1039}]

\* The evaluate group while another part of the script is modelled.
EIdle ==
    /\ e_pc = "idle"
    /\ e_loader = <<>>
    /\ e_next = 0
    /\ e_training = TRUE
    /\ e_total_err = 0
    /\ e_total_loss = 0
    /\ e_total_epoch = 0
    /\ e_i = -1
    /\ e_true = <<>>
    /\ e_estimated = <<>>
    /\ e_ret = NotCalled

\* No call made yet on a dataset.
NoCall == [op |-> "none", idx |-> 0]

\* The CNNDataset group while another part of the script is modelled.
SIdle ==
    /\ s_data = <<>>
    /\ s_patient_ids = <<>>
    /\ s_call = NoCall
    /\ s_ret = NotCalled

\* The data preparation group while another part of the script is modelled.
DIdle ==
    /\ d_pc = "idle"
    /\ d_df = <<>>
    /\ d_exclusions = {}
    /\ d_listing = {}
    /\ d_limit = 0
    /\ d_features = <<>>
    /\ d_labels = <<>>
    /\ d_patients_list = {}
    /\ d_images = <<>>
    /\ d_patients_used = <<>>
    /\ d_exc = ""

MIdle ==
    /\ m_pc = "idle"
    /\ m_depth = 0
    /\ m_kwargs = [inplanes |-> ScriptInplanes, widen_factor |-> <<1, 1>>,
                   shortcut_type |-> "B", n_classes |-> 1039]
    /\ m_built = 0
    /\ m_ret = NotCalled

\* The train_net group while another part of the script is modelled.
NIdle ==
    /\ n_pc = "idle"
    /\ n_data = <<>>
    /\ n_ids = <<>>
    /\ n_train_idx = <<>>
    /\ n_val_idx = <<>>
    /\ n_loader_batch = 1
    /\ n_batch_size = 1
    /\ n_num_epochs = 0
    /\ n_epoch = -1
    /\ n_pos = 0
    /\ n_training = TRUE
    /\ n_opt_steps = 0
    /\ n_train_batches = 0
    /\ n_batches = 0
    /\ n_train_loss = <<0, 1>>
    /\ n_val_loss = <<0, 1>>
    /\ n_training_true = <<>>
    /\ n_validation_true = <<>>
    /\ n_val_history = <<>>
    /\ n_ret = NotCalled

\* The trial loop group while another part of the script is modelled.
TIdle ==
    /\ t_pc = "idle"
    /\ t_t = 0
    /\ t_seed = -1
    /\ t_applied = <<>>
    /\ t_drawn = <<>>
    /\ t_images = <<>>
    /\ t_patients_used = <<>>
    /\ t_sizes = <<0, 0, 0>>
    /\ t_split = <<<<>>, <<>>, <<>>>>
    /\ t_net = NoNet
    /\ t_lowest = <<"inf", 0>>
    /\ t_result = NoNet
    /\ t_exc = ""

IdleButM == EIdle /\ SIdle /\ DIdle /\ NIdle /\ TIdle
IdleButE == MIdle /\ SIdle /\ DIdle /\ NIdle /\ TIdle
IdleButS == MIdle /\ EIdle /\ DIdle /\ NIdle /\ TIdle
IdleButD == MIdle /\ EIdle /\ SIdle /\ NIdle /\ TIdle
IdleButNT == MIdle /\ EIdle /\ SIdle /\ DIdle

MInit ==
    /\ m_pc = "call"
    /\ m_depth \in 0..MaxDepth
    /\ m_kwargs \in KwargsChoices(InplanesChoices)
    /\ m_built = 0
    /\ m_ret = NotCalled
    /\ IdleButM

\* One call generate_model(model_depth, inplanes, **kwargs).
GenerateModel ==
    /\ m_pc = "call"
    /\ LET r == generate_model(m_depth, m_kwargs.inplanes, m_kwargs)
       IN  /\ m_ret' = r
           /\ m_pc' = IF r.kind = "raise" THEN "raised" ELSE "returned"
           /\ m_built' = IF r.kind = "return" /\ r.value.name = "ResNet"
                         THEN m_built + 1 ELSE m_built
    /\ UNCHANGED <<m_depth, m_kwargs>>
    /\ UNCHANGED notM

MNext == GenerateModel

SpecModel == MInit /\ [][MNext]_vars

-----------------------------------------------------------------------------
(* Properties of the builder, checked under SpecModel.                     *)

\* The table of the specification, section 4.2: block kind and blocks per stage.
BlockKindTable ==
    [d \in SupportedDepths |-> IF d <= 34 THEN "BasicBlock" ELSE "Bottleneck"]

BlockCountTable ==
    [d \in SupportedDepths |->
        CASE d = 10  -> <<1, 1, 1, 1>>
          [] d = 18  -> <<2, 2, 2, 2>>
          [] d = 34  -> <<3, 4, 6, 3>>
          [] d = 50  -> <<3, 4, 6, 3>>
          [] d = 101 -> <<3, 4, 23, 3>>
          [] d = 152 -> <<3, 8, 36, 3>>
          [] d = 200 -> <<3, 24, 36, 3>>]

\* C1: for every depth in {10, 18, 34, 50, 101, 152, 200}, generate_model
\* returns a network with exactly four stages, whose blocks are all of the
\* kind the table gives for the depth and whose stages hold exactly the
\* table's number of blocks.
C1_StagesMatchTable ==
    (m_pc # "call" /\ m_depth \in SupportedDepths) =>
        /\ m_pc = "returned"
        /\ m_ret.kind = "return"
        /\ m_ret.value.name = "ResNet"
        /\ Len(m_ret.value.stages) = 4
        /\ \A s \in 1..4 :
              /\ Len(m_ret.value.stages[s]) = BlockCountTable[m_depth][s]
              /\ \A b \in DOMAIN m_ret.value.stages[s] :
                    m_ret.value.stages[s][b].name = BlockKindTable[m_depth]

\* A depth-101 network has been returned: bottleneck blocks, 23 in stage 3.
C1_Witness ==
    /\ m_pc = "returned"
    /\ m_depth = 101
    /\ m_ret.kind = "return"
    /\ m_ret.value.name = "ResNet"
    /\ Len(m_ret.value.stages[3]) = 23
    /\ m_ret.value.stages[3][23].name = "Bottleneck"

\* C8: a call of generate_model with a depth outside the supported set ends
\* in a raised AssertionError: no ResNet has been constructed and nothing,
\* in particular not None, is returned.
C8_UnsupportedDepthRaises ==
    (m_pc # "call" /\ m_depth \notin SupportedDepths) =>
        /\ m_pc = "raised"
        /\ m_ret.kind = "raise"
        /\ m_ret.exc = "AssertionError"
        /\ m_built = 0

\* The call with depth 11 has raised.
C8_Witness ==
    /\ m_pc = "raised"
    /\ m_depth = 11
    /\ m_ret.kind = "raise"
    /\ m_built = 0

-----------------------------------------------------------------------------
(* The evaluation routine: lines 373-409.                                  *)

\* What a DataLoader(dataset, batch_size) yields in one pass over examples
\* (lines 631-633): batches of batch_size examples, the last one smaller when
\* the number of examples is no multiple of batch_size; no empty batch.
NumBatches(n, batch_size) == (n + batch_size - 1) \div batch_size

BatchOf(examples, batch_size, b) ==
    SubSeq(examples, (b - 1) * batch_size + 1, Min(b * batch_size, Len(examples)))

\* One batch as the loop sees it: labels and net(inputs), both of shape
\* (B, 1), and the scalar criterion(outputs, labels).
Batch(examples, loss) ==
    [labels  |-> [i \in DOMAIN examples |-> examples[i].label],
     outputs |-> [i \in DOMAIN examples |-> examples[i].output],
     loss    |-> loss]

\* (outputs > 0.0).squeeze().long(): one 0/1 per example.
Thresholded(outputs) == [i \in DOMAIN outputs |-> IF outputs[i] > 0 THEN 1 ELSE 0]

\* The intended comparison: each prediction against its own label.
corr_sum_elementwise(outputs, labels) ==
    Cardinality({i \in DOMAIN labels : Thresholded(outputs)[i] # labels[i]})

\* int(corr.sum()) for corr = (outputs > 0.0).squeeze().long() != labels,
\* lines 396-397.  outputs and labels have shape (B, 1).  squeeze() gives the
\* predictions shape (B,) (shape () when B = 1), and != broadcasts (B,)
\* against (B, 1) to a (B, B) matrix whose entry (j, i) compares prediction i
\* with label j; for B = 1 it is the single comparison.
corr_sum(outputs, labels) ==
    Cardinality({p \in (DOMAIN labels) \X (DOMAIN outputs) :
                    Thresholded(outputs)[p[2]] # labels[p[1]]})

\* roc_auc_score accepting any labels.
auc_defined_always(true) == TRUE

\* roc_auc_score(true, estimated), line 405: undefined, and raising
\* ValueError, unless both classes occur in true.
auc_defined(true) == {0, 1} \subseteq Range(true)

\* Its value as a fraction <<num, den>>: the share of (positive, negative)
\* pairs ranked correctly, a tie counting one half.
roc_auc_score(true, estimated) ==
    LET pos  == {i \in DOMAIN true : true[i] = 1}
        neg  == {i \in DOMAIN true : true[i] = 0}
        gt   == Cardinality({p \in pos \X neg : estimated[p[1]] > estimated[p[2]]})
        ties == Cardinality({p \in pos \X neg : estimated[p[1]] = estimated[p[2]]})
    IN  <<2 * gt + ties, 2 * Cardinality(pos) * Cardinality(neg)>>

\* evaluate is called with loaders over 0..MaxExamples examples.
\* A label is 0 or 1; an output is 0 (sigmoid underflowing to 0.0) or one of
\* two positive values.
ExampleSet == [label : {0, 1}, output : {0, 1, 2}]

LoaderChoices(max_examples) ==
    UNION {
        UNION {
            { [b \in 1..NumBatches(n, bs) |-> Batch(BatchOf(ex, bs, b), losses[b])] :
                  ex \in [1..n -> ExampleSet],
                  losses \in [1..NumBatches(n, bs) -> 1..MaxLoss] }
            : bs \in 1..max_examples }
        : n \in 0..max_examples }

EInit ==
    /\ e_pc = "call"
    /\ e_loader \in LoaderChoices(MaxExamples)
    /\ e_next = 0
    /\ e_training \in BOOLEAN
    /\ e_total_err = 0
    /\ e_total_loss = 0
    /\ e_total_epoch = 0
    /\ e_i = -1
    /\ e_true = <<>>
    /\ e_estimated = <<>>
    /\ e_ret = NotCalled
    /\ IdleButE

\* Lines 384-390: the totals are zeroed and the net put in evaluation mode.
EvaluateEnter ==
    /\ e_pc = "call"
    /\ e_pc' = "loop"
    /\ e_training' = FALSE
    /\ e_total_err' = 0
    /\ e_total_loss' = 0
    /\ e_total_epoch' = 0
    /\ e_true' = <<>>
    /\ e_estimated' = <<>>
    /\ UNCHANGED <<e_loader, e_next, e_i, e_ret>>
    /\ UNCHANGED notE

\* Lines 391-403: one iteration of `for inputs, labels in loader`.
EvaluateBatch ==
    /\ e_pc = "loop"
    /\ e_next < Len(e_loader)
    /\ LET batch == e_loader[e_next + 1]
       IN  /\ e_total_err' = e_total_err + corr_sum(batch.outputs, batch.labels)
           /\ e_total_loss' = e_total_loss + batch.loss
           /\ e_total_epoch' = e_total_epoch + Len(batch.labels)
           \* for i in range(len(labels.tolist())): i ends at the batch size - 1
           /\ e_i' = IF Len(batch.labels) > 0 THEN Len(batch.labels) - 1 ELSE e_i
           /\ e_true' = e_true \o batch.labels
           /\ e_estimated' = e_estimated \o batch.outputs
    /\ e_next' = e_next + 1
    /\ UNCHANGED <<e_pc, e_loader, e_training, e_ret>>
    /\ UNCHANGED notE

\* evaluate's result (err, loss, auc), each a fraction <<num, den>>.
EvalResult(err, loss, auc) == [name |-> "tuple", err |-> err, loss |-> loss, auc |-> auc]

\* Lines 405-409, once the loader is exhausted.
EvaluateReturn ==
    /\ e_pc = "loop"
    /\ e_next = Len(e_loader)
    /\ e_ret' =
         IF ~auc_defined(e_true) THEN Raised("ValueError")
         ELSE IF e_total_epoch = 0 THEN Raised("ZeroDivisionError")
         ELSE IF e_i = -1 THEN Raised("UnboundLocalError")
         ELSE Returned(EvalResult(<<e_total_err, e_total_epoch>>,
                                  <<e_total_loss, e_i + 1>>,
                                  roc_auc_score(e_true, e_estimated)))
    /\ e_pc' = IF e_ret'.kind = "raise" THEN "raised" ELSE "returned"
    /\ UNCHANGED <<e_loader, e_next, e_training, e_total_err, e_total_loss,
                   e_total_epoch, e_i, e_true, e_estimated>>
    /\ UNCHANGED notE

ENext == EvaluateEnter \/ EvaluateBatch \/ EvaluateReturn

SpecEval == EInit /\ [][ENext]_vars

-----------------------------------------------------------------------------
(* Properties of evaluate, checked under SpecEval.                         *)

\* The sum of the loss values of the batches of a loader.
LossSum(loader) == SumSeq([b \in DOMAIN loader |-> loader[b].loss])

\* The number of examples of a loader whose own thresholded prediction
\* differs from their own label.
Misclassified(loader) ==
    SumSeq([b \in DOMAIN loader |->
               corr_sum_elementwise(loader[b].outputs, loader[b].labels)])

ExamplesSeen(loader) == SumSeq([b \in DOMAIN loader |-> Len(loader[b].labels)])

\* C3: the mean loss evaluate returns is the sum of the per-batch loss values
\* divided by the number of batches processed, whatever the batch sizes.
C3_MeanLossIsSumOverBatches ==
    e_pc = "returned" =>
        e_ret.value.loss[1] * Len(e_loader) = LossSum(e_loader) * e_ret.value.loss[2]

\* C4: the error rate evaluate returns is the number of examples whose
\* thresholded prediction differs from their own label, divided by the number
\* of examples seen, and so lies between 0 and 1.
C4_ErrorRateIsMisclassifiedShare ==
    e_pc = "returned" =>
        /\ e_ret.value.err[1] * ExamplesSeen(e_loader)
              = Misclassified(e_loader) * e_ret.value.err[2]
        /\ 0 <= e_ret.value.err[1]
        /\ e_ret.value.err[1] <= e_ret.value.err[2]

-----------------------------------------------------------------------------
(* The dataset adapter: lines 107-116.                                     *)

\* list[idx] of Python: positions 0..len-1, negative ones counted from the
\* end, IndexError outside -len..len-1.
PyIndexInRange(list, idx) == -Len(list) <= idx /\ idx < Len(list)

PyIndex(list, idx) == list[IF idx >= 0 THEN idx + 1 ELSE Len(list) + idx + 1]

\* An entry of a data mapping: a dict holding "input" and "label", or (what
\* load_image_data builds, line 58) a two-element list of arrays, which has no
\* string keys.
DictEntry(input, label) == [form |-> "dict", input |-> input, label |-> label]

ListEntry(first, second) == [form |-> "list", first |-> first, second |-> second]

\* CNNDataset.__len__, lines 112-113.
CNNDataset_len(patient_ids) == Len(patient_ids)

\* __getitem__ answering a missing id with a default sample.
CNNDataset_getitem_default(data, patient_ids, idx) ==
    IF ~PyIndexInRange(patient_ids, idx) THEN Raised("IndexError")
    ELSE LET id == PyIndex(patient_ids, idx)
         IN  IF id \notin DOMAIN data THEN Returned(<<"x", 0>>)
             ELSE IF data[id].form # "dict" THEN Raised("TypeError")
             ELSE Returned(<<data[id].input, data[id].label>>)

\* CNNDataset.__getitem__, lines 115-116.
CNNDataset_getitem(data, patient_ids, idx) ==
    IF ~PyIndexInRange(patient_ids, idx) THEN Raised("IndexError")
    ELSE LET id == PyIndex(patient_ids, idx)
         IN  IF id \notin DOMAIN data THEN Raised("KeyError")
             ELSE IF data[id].form # "dict" THEN Raised("TypeError")
             ELSE Returned(<<data[id].input, data[id].label>>)

\* The data mappings and id lists a dataset is built from.
DataIds == 1..MaxDataId

EntryChoices ==
    {DictEntry(x, l) : x \in {"x", "y"}, l \in {0, 1}} \cup {ListEntry("a", "b")}

DataChoices(all_ids) == UNION {[ids -> EntryChoices] : ids \in SUBSET all_ids}

IdListChoices(max_listed) == UNION {[1..n -> 1..(MaxDataId + 1)] : n \in 0..max_listed}

\* CNNDataset.__init__, lines 108-110, has run.
SInit ==
    /\ s_data \in DataChoices(DataIds)
    /\ s_patient_ids \in IdListChoices(MaxListed)
    /\ s_call = NoCall
    /\ s_ret = NotCalled
    /\ IdleButS

\* len(dataset)
DatasetLen ==
    /\ s_call' = [op |-> "len", idx |-> 0]
    /\ s_ret' = Returned(<<"len", CNNDataset_len(s_patient_ids)>>)
    /\ UNCHANGED <<s_data, s_patient_ids>>
    /\ UNCHANGED notS

\* dataset[idx]
DatasetGetItem ==
    /\ \E idx \in (-(MaxListed + 1))..(MaxListed + 1) :
          /\ s_call' = [op |-> "getitem", idx |-> idx]
          /\ s_ret' = CNNDataset_getitem(s_data, s_patient_ids, idx)
    /\ UNCHANGED <<s_data, s_patient_ids>>
    /\ UNCHANGED notS

SNext == DatasetLen \/ DatasetGetItem

SpecDataset == SInit /\ [][SNext]_vars

-----------------------------------------------------------------------------
(* Properties of the dataset adapter, checked under SpecDataset.           *)

-----------------------------------------------------------------------------
(* Spreadsheet and image preparation: lines 47-60, 487-530, 572-593.       *)

\* A missing cell of the sheet (NaN), and Python's None.
NaN == -1

PyNone == -2

\* create_label with the fusion indicator tested first.
create_label_fusion_first(mutation, fusion) ==
    IF fusion = 1 THEN 0
    ELSE IF mutation = 1 THEN 1
    ELSE PyNone

\* create_label, lines 487-493.
create_label(mutation, fusion) ==
    IF mutation = 1 THEN 1
    ELSE IF fusion = 1 THEN 0
    ELSE PyNone

\* A row of the sheet: its "code", "BRAF V600E final" and "BRAF fusion final"
\* cells (the other columns are dropped or carried along unread).
Row(code, mutation, fusion) == [code |-> code, mutation |-> mutation, fusion |-> fusion]

\* The result of process_excel: radiomic_features (its keys; a value is the
\* row's remaining cells) and training_labels.
ExcelResult(features, labels) == [name |-> "pair", features |-> features, labels |-> labels]

\* process_excel, lines 496-530: the outcomes it can have on df_data.
\*   497-503  rows with a NaN code, then rows with an excluded code, go;
\*   512-513  the label column: create_label per row.  With no row left, apply
\*            hands back an empty frame, and what the assignment of a frame to
\*            one column does depends on the pandas release: it raises
\*            ValueError or leaves an empty column;
\*   517      a column of None only has dtype object, on which np.isnan raises
\*            TypeError; next to a number, None is stored as NaN;
\*   518-530  rows with a NaN label go; the rest give both mappings.
process_excel(df_data, exclusions) ==
    LET kept1   == SelectSeq(df_data, LAMBDA r : r.code # NaN)
        kept2   == SelectSeq(kept1, LAMBDA r : r.code \notin exclusions)
        label   == [i \in DOMAIN kept2 |-> create_label(kept2[i].mutation, kept2[i].fusion)]
        labeled == {i \in DOMAIN kept2 : label[i] # PyNone}
        codes   == {kept2[i].code : i \in labeled}
        \* dict(zip(patient_codes, labels)): the last row of a code wins
        last(c) == CHOOSE i \in labeled :
                      /\ kept2[i].code = c
                      /\ \A j \in labeled : kept2[j].code = c => j <= i
        result  == ExcelResult([c \in codes |-> "row"], [c \in codes |-> label[last(c)]])
    IN  IF kept2 = <<>> THEN {Raised("ValueError"), Returned(result)}
        ELSE IF labeled = {} THEN {Raised("TypeError")}
        ELSE {Returned(result)}

\* An entry of image_directory: its name, as the integer int(name) gives or
\* as a name int() rejects; whether it is a directory; and how many files
\* */*.npy lie beneath it.
IntName(n) == [is_int |-> TRUE, value |-> n]

OtherName == [is_int |-> FALSE, value |-> 0]

DirEntry(name, is_dir, npy) == [name |-> name, is_dir |-> is_dir, npy |-> npy]

\* Lines 577-585: the patients with a label and an entry of image_directory
\* whose name int() accepts.
patients_list(labels, listing) ==
    LET patients_with_FLAIR == {e.name.value : e \in {x \in listing : x.name.is_int}}
    IN  (DOMAIN labels) \cap patients_with_FLAIR

\* sorted(S) for a set of integers.
RECURSIVE Sorted(_)
Sorted(S) ==
    IF S = {} THEN <<>>
    ELSE LET least == CHOOSE x \in S : \A y \in S : x <= y
         IN  <<least>> \o Sorted(S \ {least})

\* The result of load_image_data: data_images and dirs.
ImageResult(images, dirs) == [name |-> "pair", images |-> images, dirs |-> dirs]

\* load_image_data keeping every directory, listed patient or not.
load_image_data_unfiltered(listing, patients, limit) ==
    LET subdirs == {e \in listing : e.is_dir}
        sorted  == Sorted({e.name.value : e \in subdirs})
        dirs    == IF limit # 0 THEN SubSeq(sorted, 1, Min(limit, Len(sorted))) ELSE sorted
        npy(d)  == (CHOOSE e \in subdirs : e.name.value = d).npy
    IN  IF \E e \in subdirs : ~e.name.is_int THEN Raised("ValueError")
        ELSE IF \E i \in DOMAIN dirs : npy(dirs[i]) < 2 THEN Raised("IndexError")
        ELSE Returned(ImageResult([d \in Range(dirs) |-> ListEntry("a", "b")], dirs))

\* load_image_data, lines 47-60, on the first (and only) step of os.walk:
\*   50     dirs.sort(key=int) raises ValueError on a subdirectory name that
\*          int() rejects;
\*   51-54  the names as integers, those in patients, the first limit of them;
\*   57-58  two of the patient's .npy files are loaded: IndexError with fewer.
load_image_data(listing, patients, limit) ==
    LET subdirs == {e \in listing : e.is_dir}
        sorted  == Sorted({e.name.value : e \in subdirs})
        listed  == SelectSeq(sorted, LAMBDA d : d \in patients)
        dirs    == IF limit # 0 THEN SubSeq(listed, 1, Min(limit, Len(listed))) ELSE listed
        npy(d)  == (CHOOSE e \in subdirs : e.name.value = d).npy
    IN  IF \E e \in subdirs : ~e.name.is_int THEN Raised("ValueError")
        ELSE IF \E i \in DOMAIN dirs : npy(dirs[i]) < 2 THEN Raised("IndexError")
        ELSE Returned(ImageResult([d \in Range(dirs) |-> ListEntry("a", "b")], dirs))

\* The sheets the script may be given: for each patient code at most one row,
\* its two indicator cells 0 or 1 each or both left blank, and possibly a row
\* whose code is missing.
IndicatorCells == ({0, 1} \X {0, 1}) \cup {<<NaN, NaN>>}

RowsOf(code) == {<<>>} \cup {<<Row(code, c[1], c[2])>> : c \in IndicatorCells}

RECURSIVE SheetsFrom(_)
SheetsFrom(code) ==
    IF code > MaxCode THEN {<<>>, <<Row(NaN, 1, 0)>>}
    ELSE {r \o rest : r \in RowsOf(code), rest \in SheetsFrom(code + 1)}

\* The exclusion lists: the script's (line 560) is a fixed list of codes.
ExclusionChoices == SUBSET {1}

\* The image directories: per patient code no entry, a directory with two
\* or with one .npy file, or a plain file of that name; and possibly one
\* entry, directory or file, whose name is no integer.
EntriesOf(code) ==
    {{}, {DirEntry(IntName(code), TRUE, 2)}, {DirEntry(IntName(code), TRUE, 1)},
     {DirEntry(IntName(code), FALSE, 0)}}

RECURSIVE ListingsFrom(_)
ListingsFrom(code) ==
    IF code > MaxCode
    THEN {{}, {DirEntry(OtherName, TRUE, 2)}, {DirEntry(OtherName, FALSE, 0)}}
    ELSE {e \cup rest : e \in EntriesOf(code), rest \in ListingsFrom(code + 1)}

\* limit: 5 in the script (line 551); 0 stands for False.
LimitChoices == {0, 1, 5}

\* Line 573 has run: the sheet is loaded.
DInit ==
    /\ d_pc = "excel"
    /\ d_df \in SheetsFrom(1)
    /\ d_exclusions \in ExclusionChoices
    /\ d_listing \in ListingsFrom(1)
    /\ d_limit \in LimitChoices
    /\ d_features = <<>>
    /\ d_labels = <<>>
    /\ d_patients_list = {}
    /\ d_images = <<>>
    /\ d_patients_used = <<>>
    /\ d_exc = ""
    /\ IdleButD

\* Line 574: process_excel(df_data=df_sickkids, exclusions=excluded_patients).
ProcessExcel ==
    /\ d_pc = "excel"
    /\ \E r \in process_excel(d_df, d_exclusions) :
          IF r.kind = "raise"
          THEN /\ d_pc' = "raised"
               /\ d_exc' = r.exc
               /\ UNCHANGED <<d_features, d_labels>>
          ELSE /\ d_pc' = "listdir"
               /\ d_features' = r.value.features
               /\ d_labels' = r.value.labels
               /\ UNCHANGED d_exc
    /\ UNCHANGED <<d_df, d_exclusions, d_listing, d_limit, d_patients_list,
                   d_images, d_patients_used>>
    /\ UNCHANGED notD

\* Lines 577-587.
ListPatients ==
    /\ d_pc = "listdir"
    /\ d_pc' = "load"
    /\ d_patients_list' = patients_list(d_labels, d_listing)
    /\ UNCHANGED <<d_df, d_exclusions, d_listing, d_limit, d_features, d_labels,
                   d_images, d_patients_used, d_exc>>
    /\ UNCHANGED notD

\* Lines 589-594: load_image_data(image_directory, patients=patients_list,
\* limit=limit); the loop of lines 592-593 binds a local name only.
LoadImageData ==
    /\ d_pc = "load"
    /\ LET r == load_image_data(d_listing, d_patients_list, d_limit)
       IN  IF r.kind = "raise"
           THEN /\ d_pc' = "raised"
                /\ d_exc' = r.exc
                /\ UNCHANGED <<d_images, d_patients_used>>
           ELSE /\ d_pc' = "loaded"
                /\ d_images' = r.value.images
                /\ d_patients_used' = r.value.dirs
                /\ UNCHANGED d_exc
    /\ UNCHANGED <<d_df, d_exclusions, d_listing, d_limit, d_features, d_labels,
                   d_patients_list>>
    /\ UNCHANGED notD

DNext == ProcessExcel \/ ListPatients \/ LoadImageData

SpecData == DInit /\ [][DNext]_vars

-----------------------------------------------------------------------------
(* Properties of the data preparation, checked under SpecData.             *)

\* The rows of the sheet that process_excel does not drop for their code.
RowsInScope == {i \in DOMAIN d_df : d_df[i].code # NaN /\ d_df[i].code \notin d_exclusions}

\* C5: once process_excel has returned, a row with mutation = 1 has label 1
\* whatever its fusion cell (also when both are 1), a row with mutation = 0
\* and fusion = 1 has label 0, and a row with mutation = 0 and fusion = 0 is
\* dropped: its patient code is a key of neither returned mapping.
C5_LabelDerivation ==
    d_pc \in {"listdir", "load", "loaded"} =>
        \A i \in RowsInScope :
            LET r == d_df[i]
            IN  /\ r.mutation = 1 =>
                      /\ r.code \in DOMAIN d_labels /\ d_labels[r.code] = 1
                      /\ r.code \in DOMAIN d_features
                /\ (r.mutation = 0 /\ r.fusion = 1) =>
                      /\ r.code \in DOMAIN d_labels /\ d_labels[r.code] = 0
                      /\ r.code \in DOMAIN d_features
                /\ (r.mutation = 0 /\ r.fusion = 0) =>
                      /\ r.code \notin DOMAIN d_labels
                      /\ r.code \notin DOMAIN d_features

\* process_excel has returned on a sheet with a row (1, 1) and a row (0, 0):
\* the first is labelled 1, the second is in neither mapping.
C5_Witness ==
    /\ d_pc = "listdir"
    /\ d_exclusions = {}
    /\ d_df = <<Row(1, 1, 1), Row(2, 0, 0)>>
    /\ DOMAIN d_labels = {1}
    /\ d_labels[1] = 1
    /\ DOMAIN d_features = {1}

\* C9: every patient id of patients_used is the code of a row of the sheet
\* (so not missing), is not in the exclusion list, has label 0 or 1 in the
\* mapping process_excel returned, and has an entry in images.
C9_UsedPatientsResolved ==
    d_pc = "loaded" =>
        \A k \in DOMAIN d_patients_used :
            LET p == d_patients_used[k]
            IN  /\ p # NaN
                /\ \E i \in DOMAIN d_df : d_df[i].code = p
                /\ p \notin d_exclusions
                /\ p \in DOMAIN d_labels
                /\ d_labels[p] \in {0, 1}
                /\ p \in DOMAIN d_images

\* Images were loaded for patient 2 only, although patient 1 has a directory
\* too: patient 1 is excluded.
C9_Witness ==
    /\ d_pc = "loaded"
    /\ d_patients_used = <<2>>
    /\ d_exclusions = {1}
    /\ DirEntry(IntName(1), TRUE, 2) \in d_listing
    /\ \E i \in DOMAIN d_df : d_df[i].code = 1 /\ d_df[i].mutation = 1
    /\ 2 \in DOMAIN d_images

-----------------------------------------------------------------------------
(* The training loop: lines 412-482, and its call at lines 649-673.        *)

\* Script parameters, lines 553-555.
NumTrials == 5

NumEpochs == 2

BatchSize == 8

\* The dataset positions of the batch a DataLoader serves after pos examples.
\* (shuffle=True changes the order within a pass; the loop keeps no order.)
BatchPositions(loader_idx, loader_batch, pos) ==
    SubSeq(loader_idx, pos + 1, Min(pos + loader_batch, Len(loader_idx)))

\* Collating a batch reads dataset[position] for each of its positions: the
\* exception of the first read that raises, "" when all succeed.
FetchError(data, ids, positions) ==
    LET bad == {i \in DOMAIN positions :
                   CNNDataset_getitem(data, ids, positions[i]).kind = "raise"}
    IN  IF bad = {} THEN ""
        ELSE CNNDataset_getitem(data, ids,
                 positions[CHOOSE i \in bad : \A j \in bad : i <= j]).exc

\* The labels of a batch whose reads all succeed.
FetchLabels(data, ids, positions) ==
    [i \in DOMAIN positions |-> CNNDataset_getitem(data, ids, positions[i]).value[2]]

\* Lines 420-429: the next epoch begins.
TrainEpoch ==
    /\ n_pc = "epoch"
    /\ n_epoch + 1 < n_num_epochs
    /\ n_pc' = "train"
    /\ n_epoch' = n_epoch + 1
    /\ n_training' = TRUE
    /\ n_train_loss' = <<0, 1>>
    /\ n_train_batches' = 0
    /\ n_training_true' = <<>>
    /\ n_pos' = 0
    /\ UNCHANGED <<n_data, n_ids, n_train_idx, n_val_idx, n_loader_batch, n_batch_size,
                   n_num_epochs, n_opt_steps, n_batches, n_val_loss, n_validation_true,
                   n_val_history, n_ret>>
    /\ UNCHANGED tvars
    /\ UNCHANGED notNT

\* optimizer.step() counted twice for one batch.
optimizer_step_twice(steps) == steps + 2

\* Line 445: optimizer.step(), one parameter update.
optimizer_step(steps) == steps + 1

\* Lines 431-455: one iteration of `for inputs, label in train_dataloader`,
\* the criterion giving any of the loss values.
TrainBatch ==
    /\ n_pc = "train"
    /\ n_pos < Len(n_train_idx)
    /\ \E loss \in 1..MaxLoss :
          LET positions == BatchPositions(n_train_idx, n_loader_batch, n_pos)
              err       == FetchError(n_data, n_ids, positions)
          IN  IF err # ""
              THEN /\ n_pc' = "raised"
                   /\ n_ret' = Raised(err)
                   /\ UNCHANGED <<n_pos, n_opt_steps, n_train_batches, n_train_loss,
                                  n_training_true>>
              ELSE /\ n_opt_steps' = optimizer_step(n_opt_steps)
                   /\ n_training_true' =
                          n_training_true \o FetchLabels(n_data, n_ids, positions)
                   /\ n_train_loss' = <<n_train_loss[1] + loss * n_batch_size, 1>>
                   /\ n_train_batches' = n_train_batches + 1
                   /\ n_pos' = n_pos + Len(positions)
                   /\ UNCHANGED <<n_pc, n_ret>>
    /\ UNCHANGED <<n_data, n_ids, n_train_idx, n_val_idx, n_loader_batch, n_batch_size,
                   n_num_epochs, n_epoch, n_training, n_batches, n_val_loss,
                   n_validation_true, n_val_history>>
    /\ UNCHANGED tvars
    /\ UNCHANGED notNT

\* Lines 457-468, the training loader exhausted: the epoch's average
\* loss, then evaluation mode and the validation totals.
TrainAverage ==
    /\ n_pc = "train"
    /\ n_pos = Len(n_train_idx)
    /\ IF n_train_batches * n_batch_size = 0
       THEN /\ n_pc' = "raised"
            /\ n_ret' = Raised("ZeroDivisionError")
            /\ UNCHANGED <<n_train_loss, n_training, n_val_loss, n_batches,
                           n_validation_true, n_pos>>
       ELSE /\ n_train_loss' = <<n_train_loss[1], n_train_batches * n_batch_size>>
            /\ n_training' = FALSE
            /\ n_val_loss' = <<0, 1>>
            /\ n_batches' = 0
            /\ n_validation_true' = <<>>
            /\ n_pos' = 0
            /\ n_pc' = "val"
            /\ UNCHANGED n_ret
    /\ UNCHANGED <<n_data, n_ids, n_train_idx, n_val_idx, n_loader_batch, n_batch_size,
                   n_num_epochs, n_epoch, n_opt_steps, n_train_batches,
                   n_training_true, n_val_history>>
    /\ UNCHANGED tvars
    /\ UNCHANGED notNT

\* Lines 469-477: one iteration of `for inputs, label in validation_dataloader`.
ValidationBatch ==
    /\ n_pc = "val"
    /\ n_pos < Len(n_val_idx)
    /\ \E loss \in 1..MaxLoss :
          LET positions == BatchPositions(n_val_idx, n_loader_batch, n_pos)
              err       == FetchError(n_data, n_ids, positions)
          IN  IF err # ""
              THEN /\ n_pc' = "raised"
                   /\ n_ret' = Raised(err)
                   /\ UNCHANGED <<n_pos, n_batches, n_val_loss, n_validation_true>>
              ELSE /\ n_validation_true' =
                          n_validation_true \o FetchLabels(n_data, n_ids, positions)
                   /\ n_val_loss' = <<n_val_loss[1] + loss * n_batch_size, 1>>
                   /\ n_batches' = n_batches + 1
                   /\ n_pos' = n_pos + Len(positions)
                   /\ UNCHANGED <<n_pc, n_ret>>
    /\ UNCHANGED <<n_data, n_ids, n_train_idx, n_val_idx, n_loader_batch, n_batch_size,
                   n_num_epochs, n_epoch, n_training, n_opt_steps, n_train_batches,
                   n_train_loss, n_training_true, n_val_history>>
    /\ UNCHANGED tvars
    /\ UNCHANGED notNT

\* Line 478, the validation loader exhausted.
ValidationAverage ==
    /\ n_pc = "val"
    /\ n_pos = Len(n_val_idx)
    /\ IF n_batches * n_batch_size = 0
       THEN /\ n_pc' = "raised"
            /\ n_ret' = Raised("ZeroDivisionError")
            /\ UNCHANGED n_val_loss
       ELSE /\ n_val_loss' = <<n_val_loss[1], n_batches * n_batch_size>>
            /\ n_pc' = "auc"
            /\ UNCHANGED n_ret
    /\ UNCHANGED <<n_data, n_ids, n_train_idx, n_val_idx, n_loader_batch, n_batch_size,
                   n_num_epochs, n_epoch, n_pos, n_training, n_opt_steps,
                   n_train_batches, n_batches, n_train_loss, n_training_true,
                   n_validation_true, n_val_history>>
    /\ UNCHANGED tvars
    /\ UNCHANGED notNT

\* Lines 480-482: val_auc, then train_auc; each raises ValueError on labels of
\* one class.  The two scores are bound to local names and read nowhere.
\* The epoch's body ends here.
EpochAUC ==
    /\ n_pc = "auc"
    /\ IF ~auc_defined(n_validation_true) \/ ~auc_defined(n_training_true)
       THEN /\ n_pc' = "raised"
            /\ n_ret' = Raised("ValueError")
            /\ UNCHANGED n_val_history
       ELSE /\ n_pc' = "epoch"
            /\ n_val_history' = Append(n_val_history, n_val_loss)
            /\ UNCHANGED n_ret
    /\ UNCHANGED <<n_data, n_ids, n_train_idx, n_val_idx, n_loader_batch, n_batch_size,
                   n_num_epochs, n_epoch, n_pos, n_training, n_opt_steps,
                   n_train_batches, n_batches, n_train_loss, n_val_loss,
                   n_training_true, n_validation_true>>
    /\ UNCHANGED tvars
    /\ UNCHANGED notNT

\* What train_net returns after its last epoch: the function body ends at
\* line 482 without a return statement, so the call evaluates to None.
train_net_result(num_epochs, val_history) == NoNet

\* The for loop of line 420 is exhausted and the function ends.
TrainReturn ==
    /\ n_pc = "epoch"
    /\ n_epoch + 1 >= n_num_epochs
    /\ n_pc' = "returned"
    /\ n_ret' = Returned(train_net_result(n_num_epochs, n_val_history))
    /\ UNCHANGED <<n_data, n_ids, n_train_idx, n_val_idx, n_loader_batch, n_batch_size,
                   n_num_epochs, n_epoch, n_pos, n_training, n_opt_steps,
                   n_train_batches, n_batches, n_train_loss, n_val_loss,
                   n_training_true, n_validation_true, n_val_history>>
    /\ UNCHANGED tvars
    /\ UNCHANGED notNT

\* Lines 655-673: the call of train_net is over.  An exception of train_net
\* ends the script; a result is unpacked into eight names, which raises
\* TypeError on None; after a tuple the trial is reported and the next one
\* begins, or the script ends.
TrialUnpack ==
    /\ t_pc = "in_train"
    /\ n_pc \in {"returned", "raised"}
    /\ IF n_ret.kind = "raise"
       THEN /\ t_pc' = "raised"
            /\ t_exc' = n_ret.exc
            /\ UNCHANGED <<t_t, t_result>>
       ELSE IF n_ret.value.name # "tuple"
       THEN /\ t_pc' = "raised"
            /\ t_exc' = "TypeError"
            /\ UNCHANGED <<t_t, t_result>>
       ELSE /\ t_result' = n_ret.value
            /\ t_t' = t_t + 1
            /\ t_pc' = IF t_t + 1 < NumTrials THEN "seed" ELSE "done"
            /\ UNCHANGED t_exc
    /\ n_pc' = "idle"
    /\ UNCHANGED <<t_seed, t_applied, t_drawn, t_images, t_patients_used, t_sizes,
                   t_split, t_net, t_lowest>>
    /\ UNCHANGED <<n_data, n_ids, n_train_idx, n_val_idx, n_loader_batch, n_batch_size,
                   n_num_epochs, n_epoch, n_pos, n_training, n_opt_steps,
                   n_train_batches, n_batches, n_train_loss, n_val_loss,
                   n_training_true, n_validation_true, n_val_history, n_ret>>
    /\ UNCHANGED notNT

\* train_net called (line 655) with loaders over a dataset whose entries hold
\* "input" and "label": ids 1..n, the first ones served by the training
\* loader, the others by the validation loader.
LabelLists(max_len) == UNION {[1..n -> {0, 1}] : n \in 0..max_len}

LoaderBatchChoices == {1, 2, BatchSize}

NInit ==
    /\ \E train_labels \in LabelLists(MaxServed), val_labels \in LabelLists(MaxServed) :
          LET labels == train_labels \o val_labels
          IN  /\ n_data = [id \in 1..Len(labels) |-> DictEntry("x", labels[id])]
              /\ n_ids = [i \in 1..Len(labels) |-> i]
              /\ n_train_idx = [i \in 1..Len(train_labels) |-> i - 1]
              /\ n_val_idx = [i \in 1..Len(val_labels) |-> Len(train_labels) + i - 1]
    /\ n_loader_batch \in LoaderBatchChoices
    /\ n_batch_size = n_loader_batch
    /\ n_num_epochs \in 0..MaxEpochs
    /\ n_pc = "epoch"
    /\ n_epoch = -1
    /\ n_pos = 0
    /\ n_training = TRUE
    /\ n_opt_steps = 0
    /\ n_train_batches = 0
    /\ n_batches = 0
    /\ n_train_loss = <<0, 1>>
    /\ n_val_loss = <<0, 1>>
    /\ n_training_true = <<>>
    /\ n_validation_true = <<>>
    /\ n_val_history = <<>>
    /\ n_ret = NotCalled
    /\ t_pc = "in_train"
    /\ t_t = 0
    /\ t_seed = -1
    /\ t_applied = <<>>
    /\ t_drawn = <<>>
    /\ t_images = <<>>
    /\ t_patients_used = <<>>
    /\ t_sizes = <<0, 0, 0>>
    /\ t_split = <<<<>>, <<>>, <<>>>>
    /\ t_net = NoNet
    /\ t_lowest = <<"inf", 0>>
    /\ t_result = NoNet
    /\ t_exc = ""
    /\ IdleButNT

NNext ==
    \/ TrainEpoch
    \/ TrainBatch
    \/ TrainAverage
    \/ ValidationBatch
    \/ ValidationAverage
    \/ EpochAUC
    \/ TrainReturn
    \/ TrialUnpack

SpecTrain == NInit /\ [][NNext]_vars

-----------------------------------------------------------------------------
(* The trial loop of the script, lines 615-673.                            *)

\* Line 619: the value `seed` is bound to at the top of every trial.
TrialSeedValue == 1

\* Lines 625-627.  int(0.6 * n) and int(0.2 * n) truncate a double product;
\* for every n below two million the product lies in the unit interval of the
\* exact quotient, so the truncation is the integer quotient.
split_sizes(n) ==
    LET train_size      == (6 * n) \div 10
        validation_size == (2 * n) \div 10
    IN  <<train_size, validation_size, n - train_size - validation_size>>

\* The orders randperm may produce for the positions 0..n-1.
randperm(n) ==
    {p \in [1..n -> 0..(n - 1)] : \A i, j \in 1..n : p[i] = p[j] => i = j}

\* random_split cutting the second part from where the first began.
random_split_overlapping(perm, lengths) ==
    <<SubSeq(perm, 1, lengths[1]),
      SubSeq(perm, 1, lengths[2]),
      SubSeq(perm, lengths[1] + lengths[2] + 1, lengths[1] + lengths[2] + lengths[3])>>

\* torch.utils.data.random_split, lines 628-630: consecutive slices of a
\* random permutation of the dataset's positions, one Subset per length.
random_split(perm, lengths) ==
    <<SubSeq(perm, 1, lengths[1]),
      SubSeq(perm, lengths[1] + 1, lengths[1] + lengths[2]),
      SubSeq(perm, lengths[1] + lengths[2] + 1, lengths[1] + lengths[2] + lengths[3])>>

\* Lines 616-622: `seed = 1`, the generators seeded with it, one integer
\* drawn and bound to `seed`.
TrialSeed ==
    /\ t_pc = "seed"
    /\ \E next_seed \in 0..MaxSeed :
          /\ t_applied' = Append(t_applied, TrialSeedValue)
          /\ t_drawn' = Append(t_drawn, next_seed)
          /\ t_seed' = next_seed
    /\ t_pc' = "split"
    /\ UNCHANGED <<t_t, t_images, t_patients_used, t_sizes, t_split, t_net, t_lowest,
                   t_result, t_exc>>
    /\ UNCHANGED nvars
    /\ UNCHANGED notNT

\* Lines 624-630: the dataset over the loaded patients, the three sizes and
\* the random split.
TrialSplit ==
    /\ t_pc = "split"
    /\ LET n == CNNDataset_len(t_patients_used)
       IN  /\ t_sizes' = split_sizes(n)
           /\ \E perm \in randperm(n) : t_split' = random_split(perm, split_sizes(n))
    /\ t_pc' = "loaders"
    /\ UNCHANGED <<t_t, t_seed, t_applied, t_drawn, t_images, t_patients_used, t_net,
                   t_lowest, t_result, t_exc>>
    /\ UNCHANGED nvars
    /\ UNCHANGED notNT

\* Lines 631-634: three shuffling loaders.  Over an empty part the sampler of
\* some torch releases raises ValueError, that of others does not.
TrialLoaders ==
    /\ t_pc = "loaders"
    /\ \E sampler_rejects_empty \in BOOLEAN :
          IF sampler_rejects_empty /\ \E i \in 1..3 : t_sizes[i] = 0
          THEN /\ t_pc' = "raised"
               /\ t_exc' = "ValueError"
          ELSE /\ t_pc' = "model"
               /\ UNCHANGED t_exc
    /\ UNCHANGED <<t_t, t_seed, t_applied, t_drawn, t_images, t_patients_used, t_sizes,
                   t_split, t_net, t_lowest, t_result>>
    /\ UNCHANGED nvars
    /\ UNCHANGED notNT

\* Lines 636-647: the depth-18 network, its first convolution and its final
\* layer replaced.
TrialModel ==
    /\ t_pc = "model"
    /\ LET r == generate_model(18, ScriptInplanes,
                    [inplanes |-> ScriptInplanes, widen_factor |-> <<1, 1>>,
                     shortcut_type |-> "B", n_classes |-> 1039])
       IN  t_net' = [r.value EXCEPT !.conv1_out = 64, !.fc_in = 512, !.fc_out = 1]
    /\ t_pc' = "call"
    /\ UNCHANGED <<t_t, t_seed, t_applied, t_drawn, t_images, t_patients_used, t_sizes,
                   t_split, t_lowest, t_result, t_exc>>
    /\ UNCHANGED nvars
    /\ UNCHANGED notNT

\* Lines 649-660: the best-epoch names are initialised and train_net is
\* entered (lines 413-418), reading the loaders of lines 631-632.
TrialCall ==
    /\ t_pc = "call"
    /\ t_lowest' = <<"inf", 0>>
    /\ t_pc' = "in_train"
    /\ n_pc' = "epoch"
    /\ n_data' = t_images
    /\ n_ids' = t_patients_used
    /\ n_train_idx' = t_split[1]
    /\ n_val_idx' = t_split[2]
    /\ n_loader_batch' = BatchSize
    /\ n_batch_size' = BatchSize
    /\ n_num_epochs' = NumEpochs
    /\ n_epoch' = -1
    /\ n_pos' = 0
    /\ n_training' = TRUE
    /\ n_opt_steps' = 0
    /\ n_train_batches' = 0
    /\ n_batches' = 0
    /\ n_train_loss' = <<0, 1>>
    /\ n_val_loss' = <<0, 1>>
    /\ n_training_true' = <<>>
    /\ n_validation_true' = <<>>
    /\ n_val_history' = <<>>
    /\ n_ret' = NotCalled
    /\ UNCHANGED <<t_t, t_seed, t_applied, t_drawn, t_images, t_patients_used, t_sizes,
                   t_split, t_net, t_result, t_exc>>
    /\ UNCHANGED notNT

\* The script at line 615: the images of the patients load_image_data kept
\* (lines 590-593), each a two-array list.
TInit ==
    /\ \E n \in 0..MaxPatients :
          /\ t_patients_used = [i \in 1..n |-> i]
          /\ t_images = [d \in 1..n |-> ListEntry("a", "b")]
    /\ t_pc = "seed"
    /\ t_t = 0
    /\ t_seed = -1
    /\ t_applied = <<>>
    /\ t_drawn = <<>>
    /\ t_sizes = <<0, 0, 0>>
    /\ t_split = <<<<>>, <<>>, <<>>>>
    /\ t_net = NoNet
    /\ t_lowest = <<"inf", 0>>
    /\ t_result = NoNet
    /\ t_exc = ""
    /\ NIdle
    /\ IdleButNT

\* Of train_net, the steps the script's own data can reach.
TNext ==
    \/ TrialSeed
    \/ TrialSplit
    \/ TrialLoaders
    \/ TrialModel
    \/ TrialCall
    \/ TrainEpoch
    \/ TrainBatch
    \/ TrainAverage
    \/ TrialUnpack

SpecTrial == TInit /\ [][TNext]_vars

-----------------------------------------------------------------------------
(* Properties of the training loop and of the trial loop.                  *)

\* a/b <= c/d for averages kept as <<numerator, denominator>>.
LossLeq(x, y) == x[1] * y[2] <= y[1] * x[2]

\* C2: the training loop tracks the epoch of lowest validation loss.  After
\* epochs 0..k the recorded best epoch (lowest_val_loss_epoch, line 650) is one
\* of 0..k whose validation loss is minimal among them, and once train_net
\* has returned, the trial holds the tuple of values recorded at that epoch.
C2_BestEpochTracked ==
    /\ (t_pc = "in_train" /\ n_val_history # <<>>) =>
           /\ t_lowest[2] < Len(n_val_history)
           /\ \A e \in 1..Len(n_val_history) :
                  LossLeq(n_val_history[t_lowest[2] + 1], n_val_history[e])
    /\ (n_ret.kind = "return" /\ t_pc # "in_train") =>
           /\ t_result.name = "tuple"
           /\ t_exc = ""

\* C6: when the script has ended, every trial t that has a successor was
\* followed by it, and trial t+1 seeded the generators with the integer
\* drawn during trial t.
C6_NextTrialSeededWithDrawn ==
    t_pc \in {"raised", "done"} =>
        \A k \in 1..Len(t_drawn) :
            k < NumTrials =>
                /\ Len(t_applied) >= k + 1
                /\ t_applied[k + 1] = t_drawn[k]

\* C7: for every patient count N the split has floor(0.6N) training
\* positions, floor(0.2N) validation positions and the rest for test, and the
\* three parts are pairwise disjoint and hold every position 0..N-1 exactly
\* once.
C7_SplitSizesAndPartition ==
    t_pc \in {"loaders", "model", "call", "in_train", "raised", "done"} =>
        LET N     == Len(t_patients_used)
            train == t_sizes[1]
            val   == t_sizes[2]
            test  == t_sizes[3]
        IN  /\ 10 * train <= 6 * N /\ 6 * N < 10 * (train + 1)
            /\ 10 * val <= 2 * N /\ 2 * N < 10 * (val + 1)
            /\ test = N - train - val
            /\ \A i \in 1..3 : /\ Len(t_split[i]) = t_sizes[i]
                               /\ Cardinality(Range(t_split[i])) = Len(t_split[i])
            /\ \A i, j \in 1..3 : i # j => Range(t_split[i]) \cap Range(t_split[j]) = {}
            /\ Range(t_split[1]) \cup Range(t_split[2]) \cup Range(t_split[3]) = 0..(N - 1)

\* A split of five patients into three, one and one, all parts non-empty.
C7_Witness ==
    /\ t_pc = "loaders"
    /\ Len(t_patients_used) = 5
    /\ t_sizes = <<3, 1, 1>>
    /\ t_split[1] # <<>> /\ t_split[2] # <<>> /\ t_split[3] # <<>>

\* The number of batches a loader of the given batch size makes of n examples.
BatchesOver(n, loader_batch) ==
    CHOOSE b \in 0..n : b * loader_batch >= n /\ (b = 0 \/ (b - 1) * loader_batch < n)

\* C11: in every epoch the model is in training mode throughout the training
\* batches and in evaluation mode for the validation batches, which begin
\* only after all B training batches; the optimizer steps once per training
\* batch and never in evaluation mode, so after e whole epochs there were
\* e * B steps and a run of E epochs ends with E * B.
C11_ModesAndOptimizerSteps ==
    t_pc = "in_train" =>
        LET B == BatchesOver(Len(n_train_idx), n_loader_batch)
        IN  /\ n_pc = "train" => n_training
            /\ n_pc \in {"val", "auc"} => ~n_training /\ n_train_batches = B
            /\ n_epoch = -1 => n_opt_steps = 0
            /\ (n_epoch >= 0 /\ n_training) =>
                   /\ n_train_batches <= B
                   /\ n_opt_steps = n_epoch * B + n_train_batches
            /\ (n_epoch >= 0 /\ ~n_training) => n_opt_steps = (n_epoch + 1) * B
            /\ n_pc = "returned" => n_opt_steps = n_num_epochs * B

\* Two epochs over two training batches have returned after four steps.
C11_Witness ==
    /\ t_pc = "in_train"
    /\ n_pc = "returned"
    /\ n_num_epochs = 2
    /\ BatchesOver(Len(n_train_idx), n_loader_batch) = 2
    /\ n_opt_steps = 4
    /\ n_val_idx # <<>>

\* Labels of exactly one class.
SingleClass(labels) == Cardinality(Range(labels)) = 1

\* The steps of train_net, and every step of the trial loop.
TrainNetStep ==
    \/ TrainEpoch
    \/ TrainBatch
    \/ TrainAverage
    \/ ValidationBatch
    \/ ValidationAverage
    \/ EpochAUC
    \/ TrainReturn

ScriptStep == TrainNetStep \/ TrialUnpack \/ TrialSeed \/ TrialSplit \/ TrialLoaders
                  \/ TrialModel \/ TrialCall

\* The AUC computation of an epoch, reached with training or validation
\* labels of one class, raises ValueError and leaves the epoch as it is.
AUCRaisesOnSingleClass ==
    (/\ t_pc = "in_train"
     /\ n_pc = "auc"
     /\ SingleClass(n_training_true) \/ SingleClass(n_validation_true))
        => /\ n_pc' = "raised"
           /\ n_ret' = Raised("ValueError")
           /\ n_epoch' = n_epoch
           /\ n_val_history' = n_val_history
           /\ t_result' = t_result
           /\ t_t' = t_t

\* Once train_net has raised, none of its steps can run, the trial gets the
\* exception and no result, and after that no step of the script can run.
RaiseStopsEverything ==
    /\ (t_pc = "in_train" /\ n_pc = "raised") =>
           /\ ~ENABLED TrainNetStep
           /\ ENABLED TrialUnpack
           /\ t_result = NoNet
    /\ t_pc = "raised" =>
           /\ ~ENABLED ScriptStep
           /\ t_result = NoNet
           /\ t_exc # ""
           /\ n_ret.kind = "raise" => t_exc = n_ret.exc

\* C12: if an epoch's training labels or validation labels hold one class
\* only, the AUC computation raises; train_net stops in that epoch and runs
\* no later one, the trial gets no result, and no further trial starts.
C12_SingleClassStopsTheRun ==
    /\ [][AUCRaisesOnSingleClass]_vars
    /\ []RaiseStopsEverything

\* The script stopped in epoch 0 of two by the ValueError of an AUC over
\* validation labels of one class, the training labels holding both.
C12_Witness ==
    /\ t_pc = "raised"
    /\ t_exc = "ValueError"
    /\ n_num_epochs = 2
    /\ n_epoch = 0
    /\ SingleClass(n_validation_true)
    /\ ~SingleClass(n_training_true)
    /\ n_training_true # <<>>

-----------------------------------------------------------------------------
(* Properties of the layers, checked under SpecModel.                      *)

\* The stride ResNet.__init__ gives each of the four layers (lines 242-258).
StageStride(s) == IF s = 1 THEN 1 ELSE 2

\* C13: in every stage only the first block has the stage's stride (1 for
\* stage 1, 2 for stages 2 to 4) and possibly a shortcut other than the
\* identity, which it has exactly when the stride is not 1 or the channels
\* coming in differ from planes * expansion; every later block has stride 1
\* and the identity shortcut.
C13_FirstBlockCarriesStrideAndShortcut ==
    (m_pc = "returned" /\ m_ret.value.name = "ResNet") =>
        \A s \in 1..4 :
            LET layer == m_ret.value.stages[s]
                first == layer[1]
            IN  /\ first.stride = StageStride(s)
                /\ first.downsample.type # "None"
                       <=> (StageStride(s) # 1
                               \/ first.in_planes # first.planes * expansion(first.name))
                /\ \A b \in 2..Len(layer) :
                       /\ layer[b].stride = 1
                       /\ layer[b].downsample.type = "None"

\* A basic-block network of several blocks per stage whose first stage needs
\* no shortcut and whose second stage, of the same width, gets one for its
\* stride alone.
C13_Witness ==
    /\ m_pc = "returned"
    /\ m_ret.value.name = "ResNet"
    /\ m_depth = 34
    /\ m_ret.value.stages[1][1].downsample.type = "None"
    /\ m_ret.value.stages[2][1].downsample.type # "None"
    /\ m_ret.value.stages[2][1].in_planes = m_ret.value.stages[2][1].out_planes
    /\ Len(m_ret.value.stages[2]) > 1

\* The blocks of a network in the order forward runs them (lines 316-322).
BlocksInOrder(net) == net.stages[1] \o net.stages[2] \o net.stages[3] \o net.stages[4]

\* C14: for every supported depth, positive base widths and width multiplier
\* giving positive widths, each block takes the channel count that the
\* element before it puts out (the stem for the first block), each block's
\* shortcut puts out the channel count of its main path, planes * 1 or
\* planes * 4, and the classifier takes the channel count of the last stage.
C14_ChannelConsistent ==
    (/\ m_pc = "returned"
     /\ m_ret.value.name = "ResNet"
     /\ \A s \in 1..4 : m_ret.value.stages[s][1].planes > 0) =>
        LET net    == m_ret.value
            blocks == BlocksInOrder(net)
        IN  /\ \A k \in DOMAIN blocks :
                   /\ blocks[k].in_planes =
                          IF k = 1 THEN net.conv1_out ELSE blocks[k - 1].out_planes
                   /\ blocks[k].out_planes = blocks[k].planes * expansion(blocks[k].name)
                   /\ residual_channels(blocks[k]).kind = "return"
                   /\ residual_channels(blocks[k]).value = blocks[k].out_planes
            /\ net.fc_in = blocks[Len(blocks)].out_planes

====
